---- MODULE Spec2Model ----
(***************************************************************************)
(* Satellite visibility calculator: sat_math.py (the numerical core),      *)
(* gui.py (the Tk form in front of it) and test_sat_math.py (the astropy   *)
(* cross-check script).                                                    *)
(*                                                                         *)
(* Representation of the numbers.                                          *)
(*  - Rotation algebra (SpecFrame) is exact rational arithmetic.  An angle *)
(*    is an index into AngleTab, a table of the directions (c, s) on the   *)
(*    circle of radius Den with integer coordinates, so cos = c/Den and    *)
(*    sin = s/Den hold exactly.  A matrix is [m, d]: integer entries m     *)
(*    over the common denominator d.  A vector is [v, d] likewise.         *)
(*  - Dates (SpecFrame) are [day, ms]: the whole days of the Julian date   *)
(*    and the fraction of the day in milliseconds.  Durations are integers *)
(*    counting milliseconds; a duration in seconds divided by day_sec is   *)
(*    the same count of milliseconds read as a fraction of a day.          *)
(*  - IEEE classes (SpecFloat, SpecGui): a Python float is finite, NaN,    *)
(*    +inf or -inf; the comparisons and math.sin/math.cos follow CPython.  *)
(***************************************************************************)
EXTENDS Integers, Sequences, FiniteSets, TLC

VARIABLES
    inp,          \* SpecFrame: the arguments of the core call under study
    rot,          \* SpecFrame: the last matrix built by R1/R2/R3/W_polar
    out,          \* SpecFrame: what eci_to_ecef_gcrs did with inp
    fcall,        \* SpecFloat: the last core call on IEEE classes and its outcome
    vin,          \* SpecVis: an elevation and a threshold
    vis,          \* SpecVis: the visibility booleans computed from vin
    ent,          \* SpecGui: text of every entry widget
    var_use_eop,  \* SpecGui: the BooleanVar behind the checkbox
    eop_state,    \* SpecGui: widget state of ent_dut1/ent_xp/ent_yp
    lbl_result,   \* SpecGui: what the result label shows
    dialog,       \* SpecGui: the error box raised by the last click, if any
    call,         \* SpecGui: the core invocation made by the last click, if any
    edits         \* SpecGui: number of field edits so far

vars == <<inp, rot, out, fcall, vin, vis, ent, var_use_eop, eop_state,
          lbl_result, dialog, call, edits>>

None == [k |-> "none"]

(***************************************************************************)
(* Exact directions and 3x3 algebra                                        *)
(***************************************************************************)
Den == 5

AngleTab ==
    << <<5, 0>>, <<4, 3>>, <<3, 4>>, <<0, 5>>, <<-3, 4>>, <<-4, 3>>,
       <<-5, 0>>, <<-4, -3>>, <<-3, -4>>, <<0, -5>>, <<3, -4>>, <<4, -3>> >>

Angles == 0 .. (Len(AngleTab) - 1)

Cos(t) == AngleTab[t + 1][1]

Sin(t) == AngleTab[t + 1][2]

Dot(a, b) == a[1] * b[1] + a[2] * b[2] + a[3] * b[3]

Col(m, j) == <<m[1][j], m[2][j], m[3][j]>>

Transpose(A) == [m |-> <<Col(A.m, 1), Col(A.m, 2), Col(A.m, 3)>>, d |-> A.d]

\* numpy's A @ B for two 3x3 arrays
MatMul(A, B) ==
    [m |-> [i \in 1..3 |-> [j \in 1..3 |-> Dot(A.m[i], Col(B.m, j))]],
     d |-> A.d * B.d]

\* numpy's A @ r for a 3x3 array and a 3-vector
MatVec(A, r) ==
    [v |-> [i \in 1..3 |-> Dot(A.m[i], r.v)], d |-> A.d * r.d]

Det(A) ==
    LET m == A.m
    IN  m[1][1] * (m[2][2] * m[3][3] - m[2][3] * m[3][2])
      - m[1][2] * (m[2][1] * m[3][3] - m[2][3] * m[3][1])
      + m[1][3] * (m[2][1] * m[3][2] - m[2][2] * m[3][1])

Identity(d) == [m |-> <<<<d, 0, 0>>, <<0, d, 0>>, <<0, 0, d>>>>, d |-> d]

\* Mt . M = I and det M = +1, over the denominator
Orthonormal(A) ==
    /\ MatMul(Transpose(A), A).m = Identity(A.d * A.d).m
    /\ Det(A) = A.d * A.d * A.d

\* equality of two rational vectors
SameVec(a, b) == \A i \in 1..3 : a.v[i] * b.d = b.v[i] * a.d

(***************************************************************************)
(* sat_math.py: rotation builders                                          *)
(***************************************************************************)
R1_slip(x) ==
    LET cx == Cos(x)
        sx == Sin(x)
    IN  [m |-> <<<<Den, 0, 0>>, <<0, cx, -sx>>, <<0, -sx, cx>>>>, d |-> Den]

R1(x) ==
    LET cx == Cos(x)
        sx == Sin(x)
    IN  [m |-> <<<<Den, 0, 0>>, <<0, cx, -sx>>, <<0, sx, cx>>>>, d |-> Den]

R2_frame(y) ==
    LET cy == Cos(y)
        sy == Sin(y)
    IN  [m |-> <<<<cy, 0, -sy>>, <<0, Den, 0>>, <<sy, 0, cy>>>>, d |-> Den]

R2(y) ==
    LET cy == Cos(y)
        sy == Sin(y)
    IN  [m |-> <<<<cy, 0, sy>>, <<0, Den, 0>>, <<-sy, 0, cy>>>>, d |-> Den]

R3(z) ==
    LET cz == Cos(z)
        sz == Sin(z)
    IN  [m |-> <<<<cz, sz, 0>>, <<-sz, cz, 0>>, <<0, 0, Den>>>>, d |-> Den]

W_polar(xp, yp) == MatMul(R2(xp), R1(yp))

(***************************************************************************)
(* sat_math.py: time scales.  A date is [day, ms]: the integer part of the *)
(* Julian date and the fraction of the day in milliseconds.                *)
(***************************************************************************)
day_ms == 86400000

Date(day, ms) == [day |-> day, ms |-> ms]

\* date + a signed count of milliseconds, the fraction kept in 0 .. day_ms - 1
DateAdd(jd, ms) ==
    LET t == jd.ms + ms
    IN  Date(jd.day + (t \div day_ms), t % day_ms)

\* 2451545.0 + JDN_tt_from_J2000 (the offset given in milliseconds)
jd_from_tt_offset(JDN_tt_from_J2000) ==
    DateAdd(Date(2451545, 0), JDN_tt_from_J2000)

\* 32.184 + float(leap_seconds), in milliseconds
tt_utc_leap_seconds(leap_seconds) == 32184 + 1000 * leap_seconds

\* The Earth rotation angle as an index of AngleTab.  D_ut1 is the date less
\* 2451545.0 in ms; the turn fraction 0.7790572732640 + 1.00273781191135448*D
\* is held in ms of a day (0.7790572732640 day = 67310548 ms, the excess rate
\* 0.002738 per second of D), reduced by a true modulo and resolved to the
\* Len(AngleTab) directions of the table.
era_from_ut1(jd_ut1) ==
    LET D_ut1 == (jd_ut1.day - 2451545) * day_ms + jd_ut1.ms
        f == (67310548 + D_ut1 + ((2738 * (D_ut1 \div 1000)) \div 1000)) % day_ms
    IN  f \div (day_ms \div Len(AngleTab))

\* erfa.xys00b and erfa.c2ixys are outside the repository: the provider is a
\* function of the TT date alone that returns an orthonormal matrix.  Here it
\* changes every quarter of a day among four exact rotations of the pole.
CIPTab ==
    << [m |-> <<<<4, 0, -3>>, <<0, 5, 0>>, <<3, 0, 4>>>>, d |-> Den],
       [m |-> <<<<5, 0, 0>>, <<0, 4, -3>>, <<0, 3, 4>>>>, d |-> Den],
       [m |-> <<<<5, 0, 0>>, <<0, 5, 0>>, <<0, 0, 5>>>>, d |-> Den],
       [m |-> <<<<3, 0, -4>>, <<0, 5, 0>>, <<4, 0, 3>>>>, d |-> Den] >>

C_from_XYs(jd_tt) ==
    CIPTab[((jd_tt.day * 4 + (jd_tt.ms \div (day_ms \div 4))) % Len(CIPTab)) + 1]

(***************************************************************************)
(* sat_math.py: eci_to_ecef_gcrs.  The record holds the locals of the call *)
(* (era_arg and xys_arg are the values handed to era_from_ut1 and to       *)
(* C_from_XYs) and ret, the returned vector.  xp_as and yp_as name the     *)
(* polar angles; xp_as * erfa.DAS2R is the same angle in radians, so the   *)
(* table index is passed on unchanged.                                     *)
(***************************************************************************)
eci_to_ecef_gcrs_CRW(r_gcrs, jd_tt, leap_seconds, DUT1, xp_as, yp_as) ==
    LET tt_minus_utc == tt_utc_leap_seconds(leap_seconds)
        jd_utc == DateAdd(jd_tt, -tt_minus_utc)
        jd_ut1 == DateAdd(jd_utc, DUT1)
        theta == era_from_ut1(jd_ut1)
        R == R3(theta)
        C == C_from_XYs(jd_tt)
        W == W_polar(xp_as, yp_as)
        C2T == MatMul(MatMul(C, R), W)
    IN  [k |-> "done", era_arg |-> jd_ut1, xys_arg |-> jd_tt, theta |-> theta,
         R |-> R, C |-> C, W |-> W, C2T |-> C2T, ret |-> MatVec(C2T, r_gcrs)]

eci_to_ecef_gcrs_mixed(r_gcrs, jd_tt, leap_seconds, DUT1, xp_as, yp_as) ==
    LET tt_minus_utc == tt_utc_leap_seconds(leap_seconds)
        jd_utc == DateAdd(jd_tt, -tt_minus_utc)
        jd_ut1 == DateAdd(jd_utc, DUT1)
        theta == era_from_ut1(jd_utc)
        R == R3(theta)
        C == C_from_XYs(jd_ut1)
        W == W_polar(xp_as, yp_as)
        C2T == MatMul(MatMul(W, R), C)
    IN  [k |-> "done", era_arg |-> jd_utc, xys_arg |-> jd_ut1, theta |-> theta,
         R |-> R, C |-> C, W |-> W, C2T |-> C2T, ret |-> MatVec(C2T, r_gcrs)]

eci_to_ecef_gcrs(r_gcrs, jd_tt, leap_seconds, DUT1, xp_as, yp_as) ==
    LET tt_minus_utc == tt_utc_leap_seconds(leap_seconds)
        jd_utc == DateAdd(jd_tt, -tt_minus_utc)
        jd_ut1 == DateAdd(jd_utc, DUT1)
        theta == era_from_ut1(jd_ut1)
        R == R3(theta)
        C == C_from_XYs(jd_tt)
        W == W_polar(xp_as, yp_as)
        C2T == MatMul(MatMul(W, R), C)
    IN  [k |-> "done", era_arg |-> jd_ut1, xys_arg |-> jd_tt, theta |-> theta,
         R |-> R, C |-> C, W |-> W, C2T |-> C2T, ret |-> MatVec(C2T, r_gcrs)]

(***************************************************************************)
(* The parts of the state each specification leaves alone                  *)
(***************************************************************************)
frameVars == <<inp, rot, out>>

guiVars == <<ent, var_use_eop, eop_state, lbl_result, dialog, call, edits>>

FrameIdle == inp = None /\ rot = None /\ out = None

FloatIdle == fcall = None

VisIdle == vin = None /\ vis = None

GuiIdle ==
    /\ ent = None
    /\ var_use_eop = FALSE
    /\ eop_state = "none"
    /\ lbl_result = None
    /\ dialog = None
    /\ call = None
    /\ edits = 0

(***************************************************************************)
(* SpecFrame: the rotation builders and eci_to_ecef_gcrs applied to inputs *)
(* drawn from bounded sets.  A behaviour builds one matrix and makes one   *)
(* call, in either order.                                                  *)
(***************************************************************************)
MaxAng == 2

MaxLeap == 1

MaxQuarter == 1

Vecs == { <<1, 0, 0>>, <<1, 2, 3>>, <<-2, 0, 5>> }

JDNs == { q * (day_ms \div 4) : q \in -1 .. MaxQuarter }

Leaps == (0 .. MaxLeap) \cup {37}

DUT1s == {-900, 0, 500}

FrameInit ==
    /\ inp \in [r : {[v |-> v, d |-> 1] : v \in Vecs}, JDN : JDNs, leap : Leaps,
                DUT1 : DUT1s, xp : 0 .. MaxAng, yp : 0 .. MaxAng]
    /\ rot = None
    /\ out = None
    /\ FloatIdle /\ VisIdle /\ GuiIdle

BuildR1 ==
    /\ rot = None
    /\ \E t \in Angles : rot' = [k |-> "R1", t |-> t, M |-> R1(t)]
    /\ UNCHANGED <<inp, out, fcall, vin, vis, guiVars>>

BuildR2 ==
    /\ rot = None
    /\ \E t \in Angles : rot' = [k |-> "R2", t |-> t, M |-> R2(t)]
    /\ UNCHANGED <<inp, out, fcall, vin, vis, guiVars>>

BuildR3 ==
    /\ rot = None
    /\ \E t \in Angles : rot' = [k |-> "R3", t |-> t, M |-> R3(t)]
    /\ UNCHANGED <<inp, out, fcall, vin, vis, guiVars>>

BuildW ==
    /\ rot = None
    /\ rot' = [k |-> "W", t |-> <<inp.xp, inp.yp>>, M |-> W_polar(inp.xp, inp.yp)]
    /\ UNCHANGED <<inp, out, fcall, vin, vis, guiVars>>

Transform ==
    /\ out = None
    /\ out' = eci_to_ecef_gcrs(inp.r, jd_from_tt_offset(inp.JDN), inp.leap,
                               inp.DUT1, inp.xp, inp.yp)
    /\ UNCHANGED <<inp, rot, fcall, vin, vis, guiVars>>

FrameNext == BuildR1 \/ BuildR2 \/ BuildR3 \/ BuildW \/ Transform

SpecFrame == FrameInit /\ [][FrameNext]_vars

\* C1: eci_to_ecef_gcrs returns (W . R . C) . r, the factors taken in that
\* left-to-right order: the result is C applied first, then R, then W.
C1_CompositionOrder ==
    out.k = "done" =>
        SameVec(out.ret, MatVec(out.W, MatVec(out.R, MatVec(out.C, inp.r))))

\* a call whose result differs from both C.R.W and R.W.C applied to r
C1_Witness ==
    /\ out.k = "done"
    /\ ~SameVec(out.ret, MatVec(out.C, MatVec(out.R, MatVec(out.W, inp.r))))
    /\ ~SameVec(out.ret, MatVec(out.R, MatVec(out.W, MatVec(out.C, inp.r))))

\* C2 as stated: R1, R2 and R3 share one sign convention (a rotation of the
\* frame): R3(t) maps (1,0,0) to (cos t, -sin t, 0), R1(t) maps (0,1,0) to
\* (0, cos t, -sin t) and R2(t) maps (0,0,1) to (-sin t, 0, cos t).
C2_SameConvention ==
    /\ rot.k = "R3" =>
         MatVec(rot.M, [v |-> <<1, 0, 0>>, d |-> 1]).v
             = <<Cos(rot.t), -Sin(rot.t), 0>>
    /\ rot.k = "R1" =>
         MatVec(rot.M, [v |-> <<0, 1, 0>>, d |-> 1]).v
             = <<0, Cos(rot.t), -Sin(rot.t)>>
    /\ rot.k = "R2" =>
         MatVec(rot.M, [v |-> <<0, 0, 1>>, d |-> 1]).v
             = <<-Sin(rot.t), 0, Cos(rot.t)>>

\* the rotation of the frame by t about axis 1, 2 or 3
FrameRotation(axis, t) ==
    LET c == Cos(t)
        s == Sin(t)
    IN  CASE axis = 1 -> <<<<Den, 0, 0>>, <<0, c, s>>, <<0, -s, c>>>>
          [] axis = 2 -> <<<<c, 0, -s>>, <<0, Den, 0>>, <<s, 0, c>>>>
          [] axis = 3 -> <<<<c, s, 0>>, <<-s, c, 0>>, <<0, 0, Den>>>>

\* C2 as amended: R3(t) is the rotation of the frame by t about Z and maps
\* (1,0,0) to (cos t, -sin t, 0).  R1 and R2 follow the opposite convention,
\* the right-handed rotation of the vector: R1(t) maps (0,1,0) to
\* (0, cos t, sin t), R2(t) maps (0,0,1) to (sin t, 0, cos t), and each is the
\* transpose of the rotation of the frame by t about its axis.
C2_Conventions ==
    /\ rot.k = "R3" =>
         /\ rot.M.m = FrameRotation(3, rot.t)
         /\ MatVec(rot.M, [v |-> <<1, 0, 0>>, d |-> 1]).v
                = <<Cos(rot.t), -Sin(rot.t), 0>>
    /\ rot.k = "R1" =>
         /\ Transpose(rot.M).m = FrameRotation(1, rot.t)
         /\ MatVec(rot.M, [v |-> <<0, 1, 0>>, d |-> 1]).v
                = <<0, Cos(rot.t), Sin(rot.t)>>
    /\ rot.k = "R2" =>
         /\ Transpose(rot.M).m = FrameRotation(2, rot.t)
         /\ MatVec(rot.M, [v |-> <<0, 0, 1>>, d |-> 1]).v
                = <<Sin(rot.t), 0, Cos(rot.t)>>

\* R2 built for an angle whose sine is not zero, where the conventions differ
C2_Witness == rot.k = "R2" /\ Sin(rot.t) = 3 /\ Cos(rot.t) = 4

\* C3: R1, R2, R3 and W_polar are orthonormal with determinant +1; with an
\* orthonormal C so is W . R . C, and its transpose applied to the Earth-fixed
\* vector gives back the inertial vector.
C3_Orthonormal ==
    /\ rot.k \in {"R1", "R2", "R3", "W"} => Orthonormal(rot.M)
    /\ (out.k = "done" /\ Orthonormal(out.C)) =>
         /\ Orthonormal(out.W) /\ Orthonormal(out.R)
         /\ Orthonormal(out.C2T)
         /\ SameVec(MatVec(Transpose(out.C2T), out.ret), inp.r)

\* a composed matrix with all three factors away from the identity, after
\* W_polar was built from two non-zero polar angles
C3_Witness ==
    /\ out.k = "done" /\ rot.k = "W"
    /\ inp.xp # 0 /\ inp.yp # 0 /\ out.theta # 0
    /\ out.C # Identity(Den)
    /\ inp.r.v = <<1, 2, 3>>

\* C5: era_from_ut1 receives JD(TT) - (32.184 + leapSeconds)/86400 +
\* DUT1/86400 and C_from_XYs receives the unconverted JD(TT).
C5_ScalesNotMixed ==
    out.k = "done" =>
        LET jd_tt == jd_from_tt_offset(inp.JDN)
        IN  /\ out.era_arg = DateAdd(jd_tt, inp.DUT1 - (32184 + 1000 * inp.leap))
            /\ out.xys_arg = jd_tt

\* a call with 37 leap seconds and a non-zero DUT1, the two dates on
\* different days
C5_Witness ==
    /\ out.k = "done"
    /\ inp.leap = 37 /\ inp.DUT1 # 0
    /\ out.era_arg.day # out.xys_arg.day

(***************************************************************************)
(* SpecFloat: the core functions on IEEE classes.  An argument is finite,  *)
(* NaN or infinite; a computed value is the set of classes it can have     *)
(* (a finite factor may be zero, so inf * finite is inf or NaN).  A call   *)
(* either returns ([k |-> "ret", v |-> the classes of the components]) or  *)
(* raises, as math.sin and math.cos do on an infinite argument.            *)
(***************************************************************************)
FCls == {"fin", "nan", "inf"}

Raise == [k |-> "raise", exc |-> "ValueError"]

Ret(v) == [k |-> "ret", v |-> v]

\* a + b and a - b
FAdd(S, T) ==
    UNION { IF a = "nan" \/ b = "nan" THEN {"nan"}
            ELSE IF a = "inf" /\ b = "inf" THEN {"inf", "nan"}
            ELSE IF a = "inf" \/ b = "inf" THEN {"inf"}
            ELSE {"fin"} : a \in S, b \in T }

\* a * b
FMul(S, T) ==
    UNION { IF a = "nan" \/ b = "nan" THEN {"nan"}
            ELSE IF a = "inf" /\ b = "inf" THEN {"inf"}
            ELSE IF a = "inf" \/ b = "inf" THEN {"inf", "nan"}
            ELSE {"fin"} : a \in S, b \in T }

\* x % 1.0
FMod1(S) == { IF a = "fin" THEN "fin" ELSE "nan" : a \in S }

\* math.hypot: an infinite argument wins over NaN
FHypot(S, T) ==
    { IF a = "inf" \/ b = "inf" THEN "inf"
      ELSE IF a = "nan" \/ b = "nan" THEN "nan" ELSE "fin" : a \in S, b \in T }

\* math.atan2: finite for every pair without a NaN
FAtan2(S, T) ==
    { IF a = "nan" \/ b = "nan" THEN "nan" ELSE "fin" : a \in S, b \in T }

\* math.sin, math.cos: ValueError (math domain error) on an infinite argument
TrigRaises(x) == x = "inf"

era_from_ut1_f(jd_ut1) ==
    LET D_ut1 == FAdd({jd_ut1}, {"fin"})
        f == FMod1(FAdd({"fin"}, FMul({"fin"}, D_ut1)))
    IN  Ret(FMul({"fin"}, f))

\* math.sin(lat) on line 53 and math.cos(lon) on line 54 raise first; N is
\* A / sqrt(1 - E2*sin(lat)^2), of the class of sin(lat)
geodetic_to_ecef_f(lat_deg, lon_deg, h_m) ==
    IF TrigRaises(lat_deg) \/ TrigRaises(lon_deg) THEN Raise
    ELSE LET sinlat == {lat_deg}
             coslat == {lat_deg}
             sinlon == {lon_deg}
             coslon == {lon_deg}
             N == sinlat
             X == FMul(FMul(FAdd(N, {h_m}), coslat), coslon)
             Y == FMul(FMul(FAdd(N, {h_m}), coslat), sinlon)
             Z == FMul(FAdd(FMul(N, {"fin"}), {h_m}), sinlat)
         IN  Ret(<<X, Y, Z>>)

enu_components_f(dxyz, lat_deg, lon_deg) ==
    IF TrigRaises(lat_deg) \/ TrigRaises(lon_deg) THEN Raise
    ELSE LET sinp == {lat_deg}
             cosp == {lat_deg}
             sinl == {lon_deg}
             cosl == {lon_deg}
             dx == {dxyz[1]}
             dy == {dxyz[2]}
             dz == {dxyz[3]}
             E == FAdd(FMul(sinl, dx), FMul(cosl, dy))
             N == FAdd(FAdd(FMul(FMul(sinp, cosl), dx), FMul(FMul(sinp, sinl), dy)),
                       FMul(cosp, dz))
             U == FAdd(FAdd(FMul(FMul(cosp, cosl), dx), FMul(FMul(cosp, sinl), dy)),
                       FMul(sinp, dz))
         IN  Ret(<<E, N, U>>)

elevation_from_enu_f(E, N, U) == Ret(FAtan2({U}, FHypot({E}, {N})))

\* the nine entries of R1(x), R2(x) or R3(x): 0, 1, and the cosine and sine
Rot_f(x) == IF TrigRaises(x) THEN Raise ELSE Ret({"fin", x})

W_polar_f(xp, yp) ==
    IF TrigRaises(xp) \/ TrigRaises(yp) THEN Raise
    ELSE Ret(FAdd(FMul(Rot_f(xp).v, Rot_f(yp).v), FMul(Rot_f(xp).v, Rot_f(yp).v)))

\* R3(theta) cannot raise: theta is 2*pi*(x % 1.0), never infinite.  The erfa
\* calls return NaN for a date that is not finite.  W_polar raises when a polar
\* angle is infinite.
eci_to_ecef_gcrs_f(r_gcrs, jd_tt, DUT1, xp_as, yp_as) ==
    LET jd_ut1 == FAdd(FAdd({jd_tt}, {"fin"}), {DUT1})
        theta == UNION { era_from_ut1_f(j).v : j \in jd_ut1 }
        R == {"fin"} \cup theta
        C == IF jd_tt = "fin" THEN {"fin"} ELSE {"nan"}
        W == W_polar_f(xp_as, yp_as)
    IN  IF W.k = "raise" THEN Raise
        ELSE LET C2T == FAdd(FMul(FAdd(FMul(W.v, R), FMul(W.v, R)), C),
                             FMul(FAdd(FMul(W.v, R), FMul(W.v, R)), C))
             IN  Ret(FAdd(FMul(C2T, {r_gcrs}), FMul(C2T, {r_gcrs})))

FloatInit ==
    /\ fcall = None
    /\ FrameIdle /\ VisIdle /\ GuiIdle

Called(fn, args, res) == [k |-> "call", fn |-> fn, args |-> args, res |-> res]

CallGeodetic ==
    /\ \E lat \in FCls, lon \in FCls, h \in FCls :
         fcall' = Called("geodetic_to_ecef", <<lat, lon, h>>,
                         geodetic_to_ecef_f(lat, lon, h))
    /\ UNCHANGED <<frameVars, vin, vis, guiVars>>

CallEnu ==
    /\ \E d \in FCls, lat \in FCls, lon \in FCls :
         fcall' = Called("enu_components", <<d, lat, lon>>,
                         enu_components_f(<<d, "fin", "fin">>, lat, lon))
    /\ UNCHANGED <<frameVars, vin, vis, guiVars>>

CallElevation ==
    /\ \E E \in FCls, N \in FCls, U \in FCls :
         fcall' = Called("elevation_from_enu", <<E, N, U>>,
                         elevation_from_enu_f(E, N, U))
    /\ UNCHANGED <<frameVars, vin, vis, guiVars>>

CallRot ==
    /\ \E fn \in {"R1", "R2", "R3"}, x \in FCls :
         fcall' = Called(fn, <<x>>, Rot_f(x))
    /\ UNCHANGED <<frameVars, vin, vis, guiVars>>

CallWPolar ==
    /\ \E xp \in FCls, yp \in FCls :
         fcall' = Called("W_polar", <<xp, yp>>, W_polar_f(xp, yp))
    /\ UNCHANGED <<frameVars, vin, vis, guiVars>>

CallEra ==
    /\ \E jd \in FCls : fcall' = Called("era_from_ut1", <<jd>>, era_from_ut1_f(jd))
    /\ UNCHANGED <<frameVars, vin, vis, guiVars>>

CallEci ==
    /\ \E r \in FCls, jd \in FCls, dut1 \in FCls, xp \in FCls, yp \in FCls :
         fcall' = Called("eci_to_ecef_gcrs", <<r, jd, dut1, xp, yp>>,
                         eci_to_ecef_gcrs_f(r, jd, dut1, xp, yp))
    /\ UNCHANGED <<frameVars, vin, vis, guiVars>>

FloatNext ==
    \/ CallGeodetic \/ CallEnu \/ CallElevation \/ CallRot
    \/ CallWPolar \/ CallEra \/ CallEci

SpecFloat == FloatInit /\ [][FloatNext]_vars

\* C6: no core function raises, whatever numeric arguments reach it: a call
\* with a NaN or an infinite argument returns.
C6_CoreNeverRaises == fcall.k = "call" => fcall.res.k = "ret"

(***************************************************************************)
(* Python floats as the form and the comparisons see them: a finite value  *)
(* is w + u/10^6 + p/10^12 with w the floor, or the value is NaN, +inf or  *)
(* -inf.  Comparisons follow IEEE 754: every comparison with NaN is false. *)
(***************************************************************************)
Dec(w, u, p) == [c |-> "fin", w |-> w, u |-> u, p |-> p]

Num(w) == Dec(w, 0, 0)

NaN == [c |-> "nan", w |-> 0, u |-> 0, p |-> 0]

PInf == [c |-> "pinf", w |-> 0, u |-> 0, p |-> 0]

NInf == [c |-> "ninf", w |-> 0, u |-> 0, p |-> 0]

Rank(a) == CASE a.c = "ninf" -> 0 [] a.c = "fin" -> 1 [] a.c = "pinf" -> 2

\* a < b
FLt(a, b) ==
    /\ a.c # "nan" /\ b.c # "nan"
    /\ \/ Rank(a) < Rank(b)
       \/ /\ a.c = "fin" /\ b.c = "fin"
          /\ \/ a.w < b.w
             \/ a.w = b.w /\ a.u < b.u
             \/ a.w = b.w /\ a.u = b.u /\ a.p < b.p

\* a > b
FGt(a, b) == FLt(b, a)

\* a <= b
FLe(a, b) == a.c # "nan" /\ b.c # "nan" /\ (FLt(a, b) \/ a = b)

\* a >= b
FGe(a, b) == FLe(b, a)

IsFinite(a) == a.c = "fin"

(***************************************************************************)
(* The visibility test of each program                                     *)
(***************************************************************************)
\* sat_math.main and test_sat_math.py both fix the threshold
min_elevation == 15

VisibleGui_strict(elev, min_elev) == FGt(elev, min_elev)

\* gui.compute: visible = (elev >= min_elev)
VisibleGui(elev, min_elev) == FGe(elev, min_elev)

\* sat_math.main: visible = min_elevation <= elevation
VisibleMain(elevation) == FLe(Num(min_elevation), elevation)

\* test_sat_math.py: 'КА виден' if elevation > min_elevation
VisibleReference(elevation) == FGt(elevation, Num(min_elevation))

\* the words each program prints for the boolean
Shown(visible) == IF visible THEN "visible" ELSE "not visible"

(***************************************************************************)
(* SpecVis: the three visibility tests applied to one elevation.  The      *)
(* elevation is what elevation_from_enu returns: degrees(atan2(U, hypot))  *)
(* with hypot >= 0 lies in [-90, 90], or is NaN.                           *)
(***************************************************************************)
Elevations ==
    {Num(-90), Num(-5), Num(0), Dec(14, 999999, 0), Num(15), Dec(15, 0, 1),
     Num(45), Num(90), NaN}

Thresholds == {Num(-90), Num(-5), Num(0), Num(15), Num(90)}

VisInit ==
    /\ vin \in [elev : Elevations, thr : Thresholds]
    /\ vis = [gui |-> "unset", main |-> "unset", ref |-> "unset"]
    /\ FrameIdle /\ FloatIdle /\ GuiIdle

GuiCompare ==
    /\ vis.gui = "unset"
    /\ vis' = [vis EXCEPT !.gui = Shown(VisibleGui(vin.elev, vin.thr))]
    /\ UNCHANGED <<frameVars, fcall, vin, guiVars>>

MainCompare ==
    /\ vis.main = "unset"
    /\ vis' = [vis EXCEPT !.main = Shown(VisibleMain(vin.elev))]
    /\ UNCHANGED <<frameVars, fcall, vin, guiVars>>

ReferenceCompare ==
    /\ vis.ref = "unset"
    /\ vis' = [vis EXCEPT !.ref = Shown(VisibleReference(vin.elev))]
    /\ UNCHANGED <<frameVars, fcall, vin, guiVars>>

VisNext == GuiCompare \/ MainCompare \/ ReferenceCompare

SpecVis == VisInit /\ [][VisNext]_vars

\* elevation >= threshold, spelled out on the decimal parts
AtLeast(e, t) ==
    /\ e.c = "fin" /\ t.c = "fin"
    /\ \/ e.w > t.w
       \/ e.w = t.w /\ e.u > t.u
       \/ e.w = t.w /\ e.u = t.u /\ e.p >= t.p

\* C4: in gui.compute and in sat_math.main, visible is true exactly when
\* elevation >= threshold; an elevation equal to the threshold is visible.
C4_InclusiveThreshold ==
    /\ vis.gui # "unset" => (vis.gui = "visible" <=> AtLeast(vin.elev, vin.thr))
    /\ vis.main # "unset" =>
         (vis.main = "visible" <=> AtLeast(vin.elev, Num(min_elevation)))

\* both programs have evaluated an elevation equal to their threshold
C4_Witness ==
    /\ vin.elev = Num(15) /\ vin.thr = Num(15)
    /\ vis.gui = "visible" /\ vis.main = "visible"

\* C9: given the same elevation and the same threshold, the pipeline
\* (sat_math.main, gui.compute) and the reference script report the same
\* visibility boolean.
C9_SameAsReference ==
    /\ (vis.main # "unset" /\ vis.ref # "unset") => vis.main = vis.ref
    /\ (vis.gui # "unset" /\ vis.ref # "unset" /\ vin.thr = Num(min_elevation))
           => vis.gui = vis.ref

(***************************************************************************)
(* gui.py: the form.  A field is named by its entry widget; the name that  *)
(* parse_float / parse_int put into the error message is the label of that *)
(* widget, so an error is recorded with the widget's name.                 *)
(***************************************************************************)
Fields ==
    <<"ent_x", "ent_y", "ent_z", "ent_jdn", "ent_lat", "ent_lon", "ent_h",
      "ent_min_elev", "ent_leaps", "ent_dut1", "ent_xp", "ent_yp">>

EopFields == {"ent_dut1", "ent_xp", "ent_yp"}

\* the texts add_row inserts (lines 105-130)
Defaults ==
    [ent_x |-> "4435144", ent_y |-> "-2137297", ent_z |-> "4670064",
     ent_jdn |-> "8084.185608609847", ent_lat |-> "45.920266",
     ent_lon |-> "-63.342286", ent_h |-> "0", ent_min_elev |-> "15",
     ent_leaps |-> "37", ent_dut1 |-> "0", ent_xp |-> "0", ent_yp |-> "0"]

\* what the user types into each field in this model
Typed ==
    [ent_x |-> {"nan"}, ent_y |-> {"inf"}, ent_z |-> {"abc"},
     ent_jdn |-> {"0"}, ent_lat |-> {"90", "90.000001", "nan"},
     ent_lon |-> {"-180", "-181"}, ent_h |-> {"1e3"},
     ent_min_elev |-> {"-5", "90", "91", "-91"},
     ent_leaps |-> {"-1", "101", "37.0", " 0 "},
     ent_dut1 |-> {"nan", "0,5", "2"}, ent_xp |-> {"-1", "1.000001"},
     ent_yp |-> {"abc", "1"}]

Ok(v) == [k |-> "ok", v |-> v]

ValueError(name, why) == [k |-> "ValueError", field |-> name, why |-> why]

\* str.strip()
Strip(s) == IF s = " 0 " THEN "0" ELSE s

\* str.replace(",", ".")
CommaToDot(s) == IF s = "0,5" THEN "0.5" ELSE s

\* float(s): the literals of this model; 'nan' and 'inf' are literals of float
PyFloat(s) ==
    CASE s = "4435144" -> Ok(Num(4435144))
      [] s = "-2137297" -> Ok(Num(-2137297))
      [] s = "4670064" -> Ok(Num(4670064))
      [] s = "8084.185608609847" -> Ok(Dec(8084, 185608, 609847))
      [] s = "45.920266" -> Ok(Dec(45, 920266, 0))
      [] s = "-63.342286" -> Ok(Dec(-64, 657714, 0))
      [] s = "90.000001" -> Ok(Dec(90, 1, 0))
      [] s = "1.000001" -> Ok(Dec(1, 1, 0))
      [] s = "0.5" -> Ok(Dec(0, 500000, 0))
      [] s = "37.0" -> Ok(Num(37))
      [] s = "1e3" -> Ok(Num(1000))
      [] s = "0" -> Ok(Num(0))
      [] s = "1" -> Ok(Num(1))
      [] s = "2" -> Ok(Num(2))
      [] s = "15" -> Ok(Num(15))
      [] s = "37" -> Ok(Num(37))
      [] s = "90" -> Ok(Num(90))
      [] s = "91" -> Ok(Num(91))
      [] s = "101" -> Ok(Num(101))
      [] s = "-1" -> Ok(Num(-1))
      [] s = "-5" -> Ok(Num(-5))
      [] s = "-91" -> Ok(Num(-91))
      [] s = "-180" -> Ok(Num(-180))
      [] s = "-181" -> Ok(Num(-181))
      [] s = "nan" -> Ok(NaN)
      [] s = "inf" -> Ok(PInf)
      [] OTHER -> [k |-> "ValueError"]

\* int(s): decimal digits with an optional sign
PyInt(s) ==
    CASE s = "0" -> Ok(0)
      [] s = "1" -> Ok(1)
      [] s = "2" -> Ok(2)
      [] s = "15" -> Ok(15)
      [] s = "37" -> Ok(37)
      [] s = "90" -> Ok(90)
      [] s = "91" -> Ok(91)
      [] s = "101" -> Ok(101)
      [] s = "-1" -> Ok(-1)
      [] s = "-5" -> Ok(-5)
      [] s = "-91" -> Ok(-91)
      [] s = "-180" -> Ok(-180)
      [] s = "-181" -> Ok(-181)
      [] s = "4435144" -> Ok(4435144)
      [] s = "-2137297" -> Ok(-2137297)
      [] s = "4670064" -> Ok(4670064)
      [] OTHER -> [k |-> "ValueError"]

\* lo and hi are <<>> for None and <<n>> for the bound n
parse_float_no_hi(text, name, lo, hi) ==
    LET s == CommaToDot(Strip(text))
        x == PyFloat(s)
    IN  IF x.k = "ValueError" THEN ValueError(name, "number")
        ELSE IF lo # <<>> /\ FLt(x.v, Num(lo[1])) THEN ValueError(name, "lo")
        ELSE Ok(x.v)

parse_float(text, name, lo, hi) ==
    LET s == CommaToDot(Strip(text))
        x == PyFloat(s)
    IN  IF x.k = "ValueError" THEN ValueError(name, "number")
        ELSE IF lo # <<>> /\ FLt(x.v, Num(lo[1])) THEN ValueError(name, "lo")
        ELSE IF hi # <<>> /\ FGt(x.v, Num(hi[1])) THEN ValueError(name, "hi")
        ELSE Ok(x.v)

parse_int(text, name, lo, hi) ==
    LET s == Strip(text)
        v == PyInt(s)
    IN  IF v.k = "ValueError" THEN ValueError(name, "integer")
        ELSE IF lo # <<>> /\ v.v < lo[1] THEN ValueError(name, "lo")
        ELSE IF hi # <<>> /\ v.v > hi[1] THEN ValueError(name, "hi")
        ELSE Ok(v.v)

\* the parse of one field as compute asks for it (lines 39-55)
ParseField(e, f) ==
    CASE f = "ent_lat" -> parse_float(e[f], f, <<-90>>, <<90>>)
      [] f = "ent_lon" -> parse_float(e[f], f, <<-180>>, <<180>>)
      [] f = "ent_min_elev" -> parse_float(e[f], f, <<-90>>, <<90>>)
      [] f = "ent_leaps" -> parse_int(e[f], f, <<0>>, <<100>>)
      [] f \in EopFields -> parse_float(e[f], f, <<-1>>, <<1>>)
      [] OTHER -> parse_float(e[f], f, <<>>, <<>>)

\* the fields compute parses, in order: the EOP fields only with the box ticked
ParsedFields(use_eop) == IF use_eop THEN 1 .. 12 ELSE 1 .. 9

\* 2451545.0 + jdn_tt
FPlus(n, a) == IF a.c = "fin" THEN Dec(a.w + n, a.u, a.p) ELSE a

\* The elevation the core returns for a call.  The numerical chain is the
\* subject of SpecFrame; here the value is any result elevation_from_enu can
\* give: a real in [-90, 90], and NaN only when an argument is not finite.
ElevationOf(args) ==
    {Num(-90), Num(15), Num(90)} \cup
        (IF \A a \in args : IsFinite(a) THEN {} ELSE {NaN})

GuiInit ==
    /\ ent = Defaults
    /\ var_use_eop = FALSE
    /\ eop_state = "disabled"
    /\ lbl_result = [k |-> "dash"]
    /\ dialog = None
    /\ call = None
    /\ edits = 0
    /\ FrameIdle /\ FloatIdle /\ VisIdle

MaxEdits == 2

\* the user replaces the text of an entry; a disabled entry takes no input.
\* The error box of the last click is closed and its call is over.
Edit ==
    /\ edits < MaxEdits
    /\ \E i \in 1 .. 12 : \E t \in Typed[Fields[i]] :
         /\ Fields[i] \in EopFields => eop_state = "normal"
         /\ ent' = [ent EXCEPT ![Fields[i]] = t]
    /\ edits' = edits + 1
    /\ dialog' = None
    /\ call' = None
    /\ UNCHANGED <<frameVars, fcall, vin, vis, var_use_eop, eop_state, lbl_result>>

\* a click on the checkbox: the variable flips, then set_eop_fields_state runs
Toggle ==
    /\ var_use_eop' = ~var_use_eop
    /\ eop_state' = IF var_use_eop' THEN "normal" ELSE "disabled"
    /\ dialog' = None
    /\ call' = None
    /\ UNCHANGED <<frameVars, fcall, vin, vis, ent, lbl_result, edits>>

\* a click on the button: compute()
Compute ==
    LET P == [i \in ParsedFields(var_use_eop) |-> ParseField(ent, Fields[i])]
        bad == {i \in DOMAIN P : P[i].k = "ValueError"}
    IN  /\ IF bad # {}
           THEN LET first == CHOOSE i \in bad : \A j \in bad : i <= j
                IN  /\ dialog' = [k |-> "error", field |-> P[first].field,
                                  why |-> P[first].why]
                    /\ call' = None
                    /\ UNCHANGED lbl_result
           ELSE LET dut1 == IF var_use_eop THEN P[10].v ELSE Num(0)
                    xp_as == IF var_use_eop THEN P[11].v ELSE Num(0)
                    yp_as == IF var_use_eop THEN P[12].v ELSE Num(0)
                    min_elev == P[8].v
                    c == [k |-> "core", r_gcrs |-> <<P[1].v, P[2].v, P[3].v>>,
                          jd_tt |-> FPlus(2451545, P[4].v),
                          leap_seconds |-> P[9].v, DUT1 |-> dut1,
                          xp_as |-> xp_as, yp_as |-> yp_as,
                          lat |-> P[5].v, lon |-> P[6].v, h |-> P[7].v]
                IN  /\ call' = c
                    /\ \E elev \in ElevationOf({P[1].v, P[2].v, P[3].v, c.jd_tt,
                                                dut1, xp_as, yp_as, c.lat, c.lon, c.h}) :
                         lbl_result' = [k |-> "result", elev |-> elev,
                                        visible |-> Shown(VisibleGui(elev, min_elev))]
                    /\ dialog' = None
        /\ UNCHANGED <<frameVars, fcall, vin, vis, ent, var_use_eop, eop_state, edits>>

GuiNext == Edit \/ Toggle \/ Compute

SpecGui == GuiInit /\ [][GuiNext]_vars

\* the state right after a click on the button: its error box is open or its
\* call of the core has just returned; the texts are those the click read
AfterClick == dialog # None \/ call # None

InRange(a, lo, hi) == IsFinite(a) /\ AtLeast(a, Num(lo)) /\ AtLeast(Num(hi), a)

\* C7: whenever compute calls the core, latitude is a number in [-90, 90],
\* longitude a number in [-180, 180], leap seconds an integer >= 0 and every
\* other argument an ordinary real number; 'nan' and 'inf' never get through.
C7_InputsValidated ==
    call.k = "core" =>
        /\ InRange(call.lat, -90, 90)
        /\ InRange(call.lon, -180, 180)
        /\ call.leap_seconds >= 0
        /\ \A i \in 1 .. 3 : IsFinite(call.r_gcrs[i])
        /\ IsFinite(call.jd_tt) /\ IsFinite(call.h)
        /\ IsFinite(call.DUT1) /\ IsFinite(call.xp_as) /\ IsFinite(call.yp_as)

\* the threshold text as float reads it, before any range check
ThresholdTyped == PyFloat(CommaToDot(Strip(ent["ent_min_elev"])))

FieldsOk(S) == \A i \in S : ParseField(ent, Fields[i]).k = "ok"

\* C8 as stated: every real threshold, negative or above 90, gives a
\* visibility result and no error; above 90 the result is "not visible".
C8_AnyThresholdAccepted ==
    (/\ AfterClick
     /\ FieldsOk(ParsedFields(var_use_eop) \ {8})
     /\ ThresholdTyped.k = "ok" /\ IsFinite(ThresholdTyped.v)) =>
        /\ dialog = None
        /\ call.k = "core" /\ lbl_result.k = "result"
        /\ FGt(ThresholdTyped.v, Num(90)) => lbl_result.visible = "not visible"

\* C8 as amended: compute accepts a threshold from -90 to 90 only.  A
\* threshold below -90 or above 90 ends the click with an error naming the
\* threshold field and no call of the core; any other threshold, a negative
\* one included, is not an error, and with the other fields valid the click
\* ends with a result computed from that threshold.
C8_ThresholdRange ==
    (AfterClick /\ FieldsOk(1 .. 7) /\ ThresholdTyped.k = "ok") =>
        IF FLt(ThresholdTyped.v, Num(-90)) \/ FGt(ThresholdTyped.v, Num(90))
        THEN /\ dialog.k = "error" /\ dialog.field = "ent_min_elev"
             /\ call = None
        ELSE /\ ~(dialog.k = "error" /\ dialog.field = "ent_min_elev")
             /\ FieldsOk(ParsedFields(var_use_eop)) =>
                  /\ call.k = "core" /\ lbl_result.k = "result"
                  /\ lbl_result.visible
                         = Shown(AtLeast(lbl_result.elev, ThresholdTyped.v))

\* a click with the threshold 91 has ended with the error box on that field
C8_Witness ==
    /\ ent["ent_min_elev"] = "91"
    /\ dialog.k = "error" /\ dialog.field = "ent_min_elev" /\ dialog.why = "hi"
    /\ lbl_result.k = "result"

\* C10: with the box off the EOP entries are disabled, compute calls the core
\* with DUT1 = xp = yp = 0 and their texts cause no input error; with the box
\* on they are enabled and the values passed are the validated ones, each in
\* [-1, 1].
C10_EopSwitch ==
    /\ ~var_use_eop =>
         /\ eop_state = "disabled"
         /\ call.k = "core" =>
              call.DUT1 = Num(0) /\ call.xp_as = Num(0) /\ call.yp_as = Num(0)
         /\ dialog.k = "error" => dialog.field \notin EopFields
    /\ var_use_eop =>
         /\ eop_state = "normal"
         /\ call.k = "core" =>
              /\ call.DUT1 = ParseField(ent, "ent_dut1").v
              /\ call.xp_as = ParseField(ent, "ent_xp").v
              /\ call.yp_as = ParseField(ent, "ent_yp").v
              /\ InRange(call.DUT1, -1, 1)
              /\ InRange(call.xp_as, -1, 1)
              /\ InRange(call.yp_as, -1, 1)

====
